---- MODULE Spec2Model ----
(***************************************************************************)
(* Blog platform (smartbeep4/blogger): the login throttle and the          *)
(* publishing pipeline of app/routes.py over the tables of app/models.py.  *)
(*                                                                         *)
(* A request handler is a sequence of database transactions.  Each worker  *)
(* w runs one request at a time; pc[w] is its position in the handler, the *)
(* steps are the handler's reads and commits, and req[w] is what its ORM   *)
(* session holds between them.  Under Spec one request runs at a time;     *)
(* under ConcSpec the requests of several workers interleave between       *)
(* their steps.                                                            *)
(***************************************************************************)
EXTENDS Integers, Sequences, FiniteSets, TLC

\* ------------------------------------------------------------------ bounds
MaxClock == 2          \* requests served in a run of Spec
MaxPub == 3            \* requests served in a run of PubSpec
MaxDeep == 5           \* requests served in a run of ThrottleSpec
MaxConcClock == 2      \* requests served in a run of ConcSpec
MaxRace == 2           \* requests served in a run of RaceSpec
MaxFault == 2          \* requests served in a run of FaultSpec
MaxLog == 3            \* requests served in a run of LogSpec
MaxOwn == 2            \* requests served in a run of OwnSpec
MaxAudit == 2          \* requests served in a run of AuditFaultSpec
MaxParts == 3          \* parts of a content given to parse_shortcodes
MaxTokens == 3         \* tokens of a text given to sanitize_input

Workers == {1, 2}
SeqWorkers == {1}
IPs == {"ip1", "ip2"}
Usernames == {"alice", "bob", "carol"}
Passwords == {"pw1", "pw2"}
Titles == {"Hello World", "<p>Hello World</p>", "Other"}
Contents == {"python tutorial", "travel notes"}

\* ------------------------------------------------------- program constants
BlockThreshold == 5    \* routes.py:67, models.py:31

NoUser == 0
NoTime == 0
NoPost == 0
NoSlug == <<>>

VARIABLES
    users,       \* table user: id -> row
    nextUserId,  \* the id the next inserted user gets
    blocked,     \* table blocked_ip, in insertion order
    log,         \* table analytics_log, in insertion order
    session,     \* per client (origin address): the id in its login cookie
    now,         \* the time datetime.utcnow() returns
    pc,          \* per worker: position in the handler
    req,         \* per worker: the request and its session's loaded objects
    out,         \* per worker: the last response sent
    posts,       \* table post: id -> row
    nextPostId,  \* the id the next inserted post gets
    revisions,   \* table revision, in insertion order
    run,         \* history: the current run of consecutive failed attempts
    budget,      \* requests the run may still serve
    call,        \* the last call of a function of app/utils.py and its result
    quizzes      \* table quiz, in insertion order

auth == <<users, nextUserId, blocked, log, session>>
content == <<posts, nextPostId, revisions>>
aside == <<call, quizzes>>
vars == <<auth, content, now, pc, req, out, run, budget, aside>>

\* ----------------------------------------------------------------- tables
UserRow(name, pw, role) ==
    [username |-> name, password |-> pw, role |-> role,
     failed_attempts |-> 0, last_attempt |-> NoTime]

\* User.is_blocked
is_blocked(row) == row.failed_attempts >= BlockThreshold

\* mutant of check_password: the password of a locked account never matches
check_password_unless_blocked(row, password) ==
    row.password = password /\ ~is_blocked(row)

\* User.check_password
check_password(row, password) == row.password = password

\* mutant of BlockedRow: the record is keyed by the user, not by the address
BlockedRowOfUser(ip, username) == [ip_address |-> username, reason |-> username]

\* routes.py:68-71
BlockedRow(ip, username) == [ip_address |-> ip, reason |-> username]

LogRow(post_id, event_type, ip) ==
    [post_id |-> post_id, event_type |-> event_type, ip_address |-> ip]

\* BlockedIP.query.filter_by(ip_address=ip).first() is not None
IsBlocked(tbl, ip) == \E i \in 1..Len(tbl) : tbl[i].ip_address = ip

BlockedCount(tbl, ip) == Cardinality({i \in 1..Len(tbl) : tbl[i].ip_address = ip})

\* User.query.filter_by(username=name).first(): the id, or NoUser
FindUser(tbl, name) ==
    IF \E u \in DOMAIN tbl : tbl[u].username = name
    THEN CHOOSE u \in DOMAIN tbl : tbl[u].username = name
    ELSE NoUser

\* flask_login current_user: load_user(session id), anonymous when the row is gone
CurrentUser(ip) == IF session[ip] \in DOMAIN users THEN session[ip] ELSE NoUser

\* ------------------------------------------------------- request records
NoReq == [kind |-> "none", ip |-> "", username |-> "", password |-> "",
          uid |-> NoUser, pwok |-> FALSE, fa |-> 0, resp |-> "",
          pid |-> NoPost, title |-> "", content |-> "", status |-> "",
          slug |-> NoSlug, pub |-> NoTime, t |-> NoTime, loaded_status |-> ""]

NoOut == [kind |-> "none", ip |-> "", resp |-> ""]

NoRun == [uid |-> NoUser, ip |-> "", n |-> 0, resps |-> <<>>]

\* the response ends the request
Respond(w, kind, ip, resp) ==
    /\ out' = [out EXCEPT ![w] = [kind |-> kind, ip |-> ip, resp |-> resp]]
    /\ pc' = [pc EXCEPT ![w] = "idle"]
    /\ req' = [req EXCEPT ![w] = NoReq]

\* a request arrives at an idle worker
Arrives(w) ==
    /\ pc[w] = "idle"
    /\ budget > 0
    /\ budget' = budget - 1
    /\ now' = now + 1

\* ------------------------------------------------------------ login throttle
\* routes.py:63-64: user.failed_attempts += 1; user.last_attempt = utcnow(),
\* computed from the value this session loaded
FailedAttemptRow(row, loaded, t) ==
    [row EXCEPT !.failed_attempts = loaded + 1, !.last_attempt = t]

\* mutants of ShouldBlock: the threshold compared with > and with =
ShouldBlockAbove(fa) == fa > BlockThreshold

ShouldBlockAt(fa) == fa = BlockThreshold

\* routes.py:67
ShouldBlock(fa) == fa >= BlockThreshold

\* mutant of BlockedAfter: the new record replaces the table's records
BlockedAfterReplacing(tbl, ip, username, fa) ==
    IF ShouldBlock(fa) THEN <<BlockedRow(ip, username)>> ELSE tbl

\* routes.py:67-72: the record added for the address at the threshold
BlockedAfter(tbl, ip, username, fa) ==
    IF ShouldBlock(fa) THEN Append(tbl, BlockedRow(ip, username)) ELSE tbl

\* mutant of AddressBlocked: no address counts as blocked
AddressBlockedNever(ip) == FALSE

\* routes.py:25-26
AddressBlocked(ip) == IsBlocked(blocked, ip)

\* mutant of SuccessRow: the counter is left as it was
SuccessRowKeeps(row) == row

\* routes.py:44: user.failed_attempts = 0
SuccessRow(row) == [row EXCEPT !.failed_attempts = 0]

\* models.py:140: ip_address is unique; the INSERT of a second row for an
\* address raises IntegrityError
UniqueViolation(tbl, ip) == IsBlocked(tbl, ip)

\* history: the run of consecutive wrong-password attempts against one user
\* from one address that began with the user's counter at 0
RunAfter(r, resp) ==
    IF r.uid # NoUser /\ ~r.pwok
    THEN IF run.n > 0 /\ run.uid = r.uid /\ run.ip = r.ip
         THEN [run EXCEPT !.n = @ + 1, !.resps = Append(@, resp)]
         ELSE IF r.fa = 0
              THEN [uid |-> r.uid, ip |-> r.ip, n |-> 1, resps |-> <<resp>>]
              ELSE NoRun
    ELSE NoRun

\* routes.py:21: the limiter keyed by the origin address answers 429 before
\* the handler runs when the address's window is full.  How full the window
\* is depends on the time between requests, which is left open: any request
\* may be the one that is turned away.
LoginRateLimited(w, ip) ==
    /\ Arrives(w)
    /\ Respond(w, "login", ip, "too_many_requests")
    /\ run' = NoRun
    /\ UNCHANGED <<users, nextUserId, blocked, log, session, content>>

\* routes.py:22-34: the blocked-address check, the redirect of a client that
\* is signed in, and the form
LoginArrive(w, ip, method, username, password) ==
    /\ Arrives(w)
    /\ IF AddressBlocked(ip)
       THEN Respond(w, "login", ip, "blocked") /\ run' = NoRun
       ELSE IF CurrentUser(ip) # NoUser
       THEN Respond(w, "login", ip, "redirect") /\ run' = NoRun
       ELSE IF method = "GET"
       THEN Respond(w, "login", ip, "form") /\ run' = NoRun
       ELSE /\ pc' = [pc EXCEPT ![w] = "login_query"]
            /\ req' = [req EXCEPT ![w] =
                         [NoReq EXCEPT !.kind = "login", !.ip = ip,
                                       !.username = username,
                                       !.password = password]]
            /\ UNCHANGED <<out, run>>
    /\ UNCHANGED <<users, nextUserId, blocked, log, session, content>>

\* routes.py:39-41: the user row is loaded into the session
LoginQuery(w) ==
    /\ pc[w] = "login_query"
    /\ LET uid == FindUser(users, req[w].username) IN
       req' = [req EXCEPT ![w] =
                 [@ EXCEPT !.uid = uid,
                           !.pwok = IF uid = NoUser THEN FALSE
                                    ELSE check_password(users[uid], req[w].password),
                           !.fa = IF uid = NoUser THEN 0
                                  ELSE users[uid].failed_attempts]]
    /\ pc' = [pc EXCEPT ![w] = "login_commit"]
    /\ UNCHANGED <<users, nextUserId, blocked, log, session, now, out, run, budget, content>>

\* routes.py:41-45: login_user, the counter reset and its commit.  The UPDATE
\* is emitted only when the loaded value differs from 0; it fails when the
\* row is gone.
LoginSuccess(w) ==
    LET r == req[w] IN
    /\ session' = [session EXCEPT ![r.ip] = r.uid]
    /\ IF r.fa = 0
       THEN /\ pc' = [pc EXCEPT ![w] = "login_log"]
            /\ req' = [req EXCEPT ![w].resp = "login_ok"]
            /\ UNCHANGED <<users, out, run>>
       ELSE IF r.uid \in DOMAIN users
       THEN /\ users' = [users EXCEPT ![r.uid] = SuccessRow(@)]
            /\ pc' = [pc EXCEPT ![w] = "login_log"]
            /\ req' = [req EXCEPT ![w].resp = "login_ok"]
            /\ UNCHANGED <<out, run>>
       ELSE /\ Respond(w, "login", r.ip, "error")
            /\ run' = NoRun
            /\ UNCHANGED users
    /\ UNCHANGED blocked

\* routes.py:62-76: the increment, the block at the threshold and their commit.
\* A failed commit rolls the whole transaction back and answers 500.
LoginFailure(w) ==
    LET r == req[w]
        fa == r.fa + 1
    IN
    IF r.uid \notin DOMAIN users \/ (ShouldBlock(fa) /\ UniqueViolation(blocked, r.ip))
    THEN /\ Respond(w, "login", r.ip, "error")
         /\ run' = NoRun
         /\ UNCHANGED <<users, blocked, session>>
    ELSE /\ users' = [users EXCEPT ![r.uid] = FailedAttemptRow(@, r.fa, now)]
         /\ blocked' = BlockedAfter(blocked, r.ip, r.username, fa)
         /\ req' = [req EXCEPT ![w].resp = IF ShouldBlock(fa) THEN "locked" ELSE "invalid"]
         /\ pc' = [pc EXCEPT ![w] = "login_log"]
         /\ UNCHANGED <<session, out, run>>

\* mutant of LoginUnknown: the attempt is answered without the audit entry
LoginUnknownUnlogged(w) ==
    /\ Respond(w, "login", req[w].ip, "invalid")
    /\ UNCHANGED <<users, blocked, session, run>>

\* mutant of LoginUnknown: the answer tells that the username is unknown
LoginUnknownNamed(w) ==
    /\ req' = [req EXCEPT ![w].resp = "no_such_user"]
    /\ pc' = [pc EXCEPT ![w] = "login_log"]
    /\ UNCHANGED <<users, blocked, session, out, run>>

\* routes.py:77-78: no such user
LoginUnknown(w) ==
    /\ req' = [req EXCEPT ![w].resp = "invalid"]
    /\ pc' = [pc EXCEPT ![w] = "login_log"]
    /\ UNCHANGED <<users, blocked, session, out, run>>

\* routes.py:41-78
LoginCommit(w) ==
    /\ pc[w] = "login_commit"
    /\ IF req[w].uid # NoUser /\ req[w].pwok THEN LoginSuccess(w)
       ELSE IF req[w].uid # NoUser THEN LoginFailure(w)
       ELSE LoginUnknown(w)
    /\ UNCHANGED <<nextUserId, log, now, budget, content>>

\* routes.py:47-59 and 80-89: the audit entry, its commit, and the response
LoginLog(w) ==
    LET r == req[w] IN
    /\ pc[w] = "login_log"
    /\ log' = Append(log, LogRow(0, IF r.resp = "login_ok" THEN "login_success"
                                    ELSE "login_failed", r.ip))
    /\ run' = RunAfter(r, r.resp)
    /\ Respond(w, "login", r.ip, r.resp)
    /\ UNCHANGED <<users, nextUserId, blocked, session, now, budget, content>>

\* routes.py:53-54 and 86-87: the store fails the commit of the audit entry;
\* nothing catches the exception and the 500 handler rolls the entry back
LoginLogFails(w) ==
    /\ pc[w] = "login_log"
    /\ Respond(w, "login", req[w].ip, "error")
    /\ run' = NoRun
    /\ UNCHANGED <<auth, now, budget, content>>

\* ------------------------------------------------------ session and admin
\* routes.py:92-97
Logout(w, ip) ==
    /\ Arrives(w)
    /\ IF CurrentUser(ip) = NoUser
       THEN Respond(w, "logout", ip, "login_required") /\ UNCHANGED session
       ELSE /\ session' = [session EXCEPT ![ip] = NoUser]
            /\ Respond(w, "logout", ip, "redirect")
    /\ run' = NoRun
    /\ UNCHANGED <<users, nextUserId, blocked, log, content>>

\* routes.py:502-523 and forms.py:23-27: an admin creates a user
AdminCreateUser(w, ip, username, password, role) ==
    /\ Arrives(w)
    /\ IF CurrentUser(ip) = NoUser
       THEN Respond(w, "admin_users", ip, "login_required")
            /\ UNCHANGED <<users, nextUserId>>
       ELSE IF users[CurrentUser(ip)].role # "admin"
       THEN Respond(w, "admin_users", ip, "denied")
            /\ UNCHANGED <<users, nextUserId>>
       ELSE IF FindUser(users, username) # NoUser
       THEN Respond(w, "admin_users", ip, "form")
            /\ UNCHANGED <<users, nextUserId>>
       ELSE /\ users' = (nextUserId :> UserRow(username, password, role)) @@ users
            /\ nextUserId' = nextUserId + 1
            /\ Respond(w, "admin_users", ip, "created")
    /\ run' = NoRun
    /\ UNCHANGED <<blocked, log, session, content>>

\* routes.py:526-542: an admin deletes another user
AdminDeleteUser(w, ip, uid) ==
    /\ Arrives(w)
    /\ IF CurrentUser(ip) = NoUser
       THEN Respond(w, "admin_delete", ip, "login_required") /\ UNCHANGED users
       ELSE IF users[CurrentUser(ip)].role # "admin"
       THEN Respond(w, "admin_delete", ip, "denied") /\ UNCHANGED users
       ELSE IF uid \notin DOMAIN users
       THEN Respond(w, "admin_delete", ip, "not_found") /\ UNCHANGED users
       ELSE IF uid = CurrentUser(ip)
       THEN Respond(w, "admin_delete", ip, "refused") /\ UNCHANGED users
       ELSE /\ users' = [u \in DOMAIN users \ {uid} |-> users[u]]
            /\ Respond(w, "admin_delete", ip, "deleted")
    /\ run' = NoRun
    /\ UNCHANGED <<nextUserId, blocked, log, session, content>>

\* ------------------------------------------------------ publishing pipeline
\* utils.py:9-33 with the editor's allow-list (routes.py:197): bleach strips
\* the elements that are not inline emphasis and keeps their text
sanitize_title(title) ==
    IF title = "<p>Hello World</p>" THEN "Hello World" ELSE title

\* slugify(title): lower-case words; a slug is its hyphen-separated parts
slugify(title) ==
    IF title = "Hello World" THEN <<"hello", "world">>
    ELSE IF title = "Other" THEN <<"other">>
    ELSE IF title = "Untitled Draft" THEN <<"untitled", "draft">>
    ELSE <<"p", "hello", "world", "p">>

\* Post.query.filter_by(slug=slug).first() is not None
SlugTaken(tbl, slug) == \E p \in DOMAIN tbl : tbl[p].slug = slug

\* mutant of FirstFree: the suffixes are tried from the one after counter
FirstFreeSkipping(tbl, base, counter) == Append(base, ToString(counter + 1))

\* models.py:63-67: the first of base-1, base-2, ... from counter on that is free
RECURSIVE FirstFree(_, _, _)
FirstFree(tbl, base, counter) ==
    IF SlugTaken(tbl, Append(base, ToString(counter)))
    THEN FirstFree(tbl, base, counter + 1)
    ELSE Append(base, ToString(counter))

\* mutant of generate_slug: the slug is derived again from the title
generate_slug_anew(tbl, slug, title) ==
    IF SlugTaken(tbl, slugify(title)) THEN FirstFree(tbl, slugify(title), 1)
    ELSE slugify(title)

\* models.py:59-68: Post.generate_slug on a post whose slug is `slug`
generate_slug(tbl, slug, title) ==
    IF slug # NoSlug THEN slug
    ELSE IF SlugTaken(tbl, slugify(title)) THEN FirstFree(tbl, slugify(title), 1)
    ELSE slugify(title)

\* the words utils.py:147-160 looks for that occur in a content
WordsOf(text) ==
    IF text = "python tutorial" THEN {"python", "tutorial"} ELSE {}

\* utils.py:132-169
generate_basic_tags(text) ==
    LET has(ws) == ws \cap WordsOf(text) # {}
        cats == (IF has({"code", "programming", "python", "javascript", "web"})
                 THEN <<"Technology">> ELSE <<>>)
             \o (IF has({"tutorial", "guide", "how to"}) THEN <<"Tutorial">> ELSE <<>>)
             \o (IF has({"opinion", "thoughts", "perspective"}) THEN <<"Opinion">> ELSE <<>>)
        common == <<"web", "development", "python", "javascript", "tutorial",
                    "guide", "tips", "tricks">>
        found == SelectSeq(common, LAMBDA x : x \in WordsOf(text))
        tags == SubSeq(found, 1, IF Len(found) < 5 THEN Len(found) ELSE 5)
    IN [categories |-> IF cats = <<>> THEN <<"General", "Blog">> ELSE cats,
        tags |-> IF tags = <<>> THEN <<"blog", "article", "post">> ELSE tags]

\* utils.py:90-92, 115-124 and 126-128: the ways the AI collaborator fails: no
\* API key, an exception of the client, a response without a JSON object
AIFailures == {"no_key", "error", "no_json"}

\* what the AI collaborator does with a request
AIOutcomes == {"answer", "empty"} \cup AIFailures

\* mutant of Classify: a failure of the collaborator leaves the lists empty
ClassifyNoFallback(text, ai) ==
    IF ai = "answer" THEN [categories |-> <<"Travel">>, tags |-> <<"trip">>]
    ELSE [categories |-> <<>>, tags |-> <<>>]

\* utils.py:77-129 and routes.py:217-222: the parsed answer of the model, an
\* answer that is a JSON object without the two keys, or the fallback
Classify(text, ai) ==
    IF ai = "answer" THEN [categories |-> <<"Travel">>, tags |-> <<"trip">>]
    ELSE IF ai = "empty" THEN [categories |-> <<>>, tags |-> <<>>]
    ELSE generate_basic_tags(text)

PostRow(title, slug, text, status, author, t) ==
    [title |-> title, slug |-> slug, content |-> text, status |-> status,
     categories |-> <<>>, tags |-> <<>>, views |-> 0, published_at |-> NoTime,
     author_id |-> author, updated_at |-> t]

\* models.py:50: onupdate stamps updated_at when the flush emits an UPDATE,
\* which it does when a column of the row has changed
Touched(old, new, t) == IF new = old THEN old ELSE [new EXCEPT !.updated_at = t]

RevisionRow(pid, text) == [post_id |-> pid, content |-> text]

\* models.py:41: slug is NOT NULL and unique; the INSERT raises IntegrityError
PostInsertFails(tbl, row) == row.slug = NoSlug \/ SlugTaken(tbl, row.slug)

\* mutant of OwnPost: the query filters by id alone
OwnPostOfAnyone(pid, uid) == pid \in DOMAIN posts

\* Post.query.filter_by(id=pid, author_id=uid).first() is not None
OwnPost(pid, uid) == pid \in DOMAIN posts /\ posts[pid].author_id = uid

\* mutant of FirstPublish: every publish counts as the first
FirstPublishAlways(published_at) == TRUE

\* routes.py:214 and 278
FirstPublish(published_at) == published_at = NoTime

\* routes.py:215-220 and 279-285: the first publish stamps and classifies
PublishedRow(row, t, text, ai) ==
    [row EXCEPT !.published_at = t,
                !.categories = Classify(text, ai).categories,
                !.tags = Classify(text, ai).tags]

\* routes.py:182-210: the editor form is submitted
EditorArrive(w, ip, pid, title, text, status) ==
    /\ Arrives(w)
    /\ IF CurrentUser(ip) = NoUser
       THEN Respond(w, "editor", ip, "login_required")
       ELSE IF pid # NoPost /\ ~OwnPost(pid, CurrentUser(ip))
       THEN Respond(w, "editor", ip, "not_found")
       ELSE /\ pc' = [pc EXCEPT ![w] = "editor_commit"]
            /\ req' = [req EXCEPT ![w] =
                         [NoReq EXCEPT !.kind = "editor", !.ip = ip,
                                       !.uid = CurrentUser(ip), !.pid = pid,
                                       !.title = sanitize_title(title),
                                       !.content = text, !.status = status,
                                       !.t = now + 1,
                                       !.loaded_status = IF pid = NoPost THEN ""
                                                         ELSE posts[pid].status,
                                       !.slug = IF pid = NoPost
                                                THEN generate_slug(posts, NoSlug,
                                                                   sanitize_title(title))
                                                ELSE NoSlug]]
            /\ UNCHANGED out
    /\ run' = NoRun
    /\ UNCHANGED <<auth, content>>

\* routes.py:195-212: the first commit of the editor, an UPDATE or an INSERT
EditorCommit(w) ==
    LET r == req[w]
        new == PostRow(r.title, r.slug, r.content, r.status, r.uid, r.t)
    IN
    /\ pc[w] = "editor_commit"
    /\ IF r.pid # NoPost
       THEN /\ posts' = [posts EXCEPT ![r.pid] =
                           [@ EXCEPT !.title = r.title, !.content = r.content,
                                     !.status = r.status, !.updated_at = r.t]]
            /\ pc' = [pc EXCEPT ![w] = "editor_publish"]
            /\ UNCHANGED <<nextPostId, req, out>>
       ELSE IF PostInsertFails(posts, new)
       THEN Respond(w, "editor", r.ip, "error") /\ UNCHANGED <<posts, nextPostId>>
       ELSE /\ posts' = (nextPostId :> new) @@ posts
            /\ nextPostId' = nextPostId + 1
            /\ req' = [req EXCEPT ![w].pid = nextPostId]
            /\ pc' = [pc EXCEPT ![w] = "editor_publish"]
            /\ UNCHANGED out
    /\ UNCHANGED <<auth, revisions, now, run, budget>>

\* routes.py:214-230: the first publish through the editor and the second commit
EditorPublish(w, ai) ==
    LET r == req[w]
        row == posts[r.pid]
    IN
    /\ pc[w] = "editor_publish"
    /\ IF r.status = "published" /\ FirstPublish(row.published_at)
       THEN /\ posts' = [posts EXCEPT ![r.pid] =
                           Touched(@, PublishedRow(@, now, row.content, ai), now)]
            /\ revisions' = Append(revisions, RevisionRow(r.pid, row.content))
       ELSE UNCHANGED <<posts, revisions>>
    /\ Respond(w, "editor", r.ip, "saved")
    /\ UNCHANGED <<auth, nextPostId, now, run, budget>>

\* routes.py:228: the store fails the second commit of the editor, the one
\* that records the revision; the 500 handler rolls the transaction back
EditorPublishFails(w) ==
    LET r == req[w] IN
    /\ pc[w] = "editor_publish"
    /\ r.status = "published" /\ FirstPublish(posts[r.pid].published_at)
    /\ Respond(w, "editor", r.ip, "error")
    /\ UNCHANGED <<auth, content, now, run, budget>>

\* mutant of DraftSaved: the saved post goes back to draft
DraftSavedAsDraft(row, text, t) ==
    [row EXCEPT !.content = text, !.updated_at = t, !.status = "draft"]

\* routes.py:246-247: post.content = content; post.updated_at = utcnow()
DraftSaved(row, text, t) == [row EXCEPT !.content = text, !.updated_at = t]

\* routes.py:236-246 and 251-258: the auto-save request
SaveDraftArrive(w, ip, pid, text) ==
    /\ Arrives(w)
    /\ IF CurrentUser(ip) = NoUser
       THEN Respond(w, "save_draft", ip, "login_required")
       ELSE IF pid # NoPost /\ ~OwnPost(pid, CurrentUser(ip))
       THEN Respond(w, "save_draft", ip, "bad_request")
       ELSE /\ pc' = [pc EXCEPT ![w] = "draft_commit"]
            /\ req' = [req EXCEPT ![w] =
                         [NoReq EXCEPT !.kind = "save_draft", !.ip = ip,
                                       !.uid = CurrentUser(ip), !.pid = pid,
                                       !.title = "Untitled Draft",
                                       !.content = text, !.status = "draft",
                                       !.t = now + 1]]
            /\ UNCHANGED out
    /\ run' = NoRun
    /\ UNCHANGED <<auth, content>>

\* routes.py:247-250 and 253-261: the commit of the auto-save.  The new draft
\* is inserted as it was built, without a slug.
SaveDraftCommit(w) ==
    LET r == req[w]
        new == PostRow(r.title, r.slug, r.content, r.status, r.uid, r.t)
    IN
    /\ pc[w] = "draft_commit"
    /\ IF r.pid # NoPost
       THEN /\ posts' = [posts EXCEPT ![r.pid] = DraftSaved(@, r.content, r.t)]
            /\ Respond(w, "save_draft", r.ip, "saved")
            /\ UNCHANGED nextPostId
       ELSE IF PostInsertFails(posts, new)
       THEN Respond(w, "save_draft", r.ip, "error") /\ UNCHANGED <<posts, nextPostId>>
       ELSE /\ posts' = (nextPostId :> new) @@ posts
            /\ nextPostId' = nextPostId + 1
            /\ Respond(w, "save_draft", r.ip, "created")
    /\ UNCHANGED <<auth, revisions, now, run, budget>>

\* routes.py:266-275: the publish request finds the requester's post
PublishArrive(w, ip, pid) ==
    /\ Arrives(w)
    /\ IF CurrentUser(ip) = NoUser
       THEN Respond(w, "publish", ip, "login_required")
       ELSE IF ~OwnPost(pid, CurrentUser(ip))
       THEN Respond(w, "publish", ip, "not_found")
       ELSE /\ pc' = [pc EXCEPT ![w] = "publish_commit"]
            /\ req' = [req EXCEPT ![w] =
                         [NoReq EXCEPT !.kind = "publish", !.ip = ip,
                                       !.uid = CurrentUser(ip), !.pid = pid,
                                       !.content = posts[pid].content,
                                       !.loaded_status = posts[pid].status,
                                       !.pub = posts[pid].published_at]]
            /\ UNCHANGED out
    /\ run' = NoRun
    /\ UNCHANGED <<auth, content>>

\* routes.py:277-294: the status, the first publish, the revision, one commit
PublishCommit(w, ai) ==
    LET r == req[w] IN
    /\ pc[w] = "publish_commit"
    /\ posts' = [posts EXCEPT ![r.pid] =
                   Touched(@, IF FirstPublish(r.pub)
                              THEN PublishedRow([@ EXCEPT !.status = "published"],
                                                now, r.content, ai)
                              ELSE [@ EXCEPT !.status = "published"], now)]
    /\ revisions' = Append(revisions, RevisionRow(r.pid, r.content))
    /\ Respond(w, "publish", r.ip, "published")
    /\ UNCHANGED <<auth, nextPostId, now, run, budget>>

\* routes.py:290: the store fails the commit of the publish call; the 500
\* handler rolls the transaction back
PublishCommitFails(w) ==
    /\ pc[w] = "publish_commit"
    /\ Respond(w, "publish", req[w].ip, "error")
    /\ UNCHANGED <<auth, content, now, run, budget>>

\* ------------------------------------------------------ views and quizzes
\* models.py:90-96
QuizRow(pid) == [post_id |-> pid, attempts |-> 0, successes |-> 0]

\* routes.py:112-115: the page of a post is requested by its slug
ViewArrive(w, ip, slug) ==
    /\ Arrives(w)
    /\ IF \E p \in DOMAIN posts : posts[p].slug = slug /\ posts[p].status = "published"
       THEN LET p == CHOOSE p \in DOMAIN posts :
                        posts[p].slug = slug /\ posts[p].status = "published"
            IN /\ pc' = [pc EXCEPT ![w] = "view_count"]
               /\ req' = [req EXCEPT ![w] =
                            [NoReq EXCEPT !.kind = "view", !.ip = ip, !.pid = p,
                                          !.fa = posts[p].views]]
               /\ UNCHANGED out
       ELSE Respond(w, "view", ip, "not_found")
    /\ run' = NoRun
    /\ UNCHANGED <<auth, content>>

\* routes.py:117-118 and models.py:70-73: increment_views and its commit
ViewCount(w) ==
    /\ pc[w] = "view_count"
    /\ posts' = [posts EXCEPT ![req[w].pid] =
                   Touched(@, [@ EXCEPT !.views = req[w].fa + 1], now)]
    /\ pc' = [pc EXCEPT ![w] = "view_log"]
    /\ UNCHANGED <<auth, nextPostId, revisions, now, req, out, run, budget>>

\* routes.py:120-132: the audit entry, its commit, and the page
ViewLog(w) ==
    /\ pc[w] = "view_log"
    /\ log' = Append(log, LogRow(req[w].pid, "view", req[w].ip))
    /\ Respond(w, "view", req[w].ip, "page")
    /\ UNCHANGED <<users, nextUserId, blocked, session, content, now, run, budget>>

\* routes.py:297-312: a signed-in user creates a quiz for a post id
CreateQuiz(w, ip, pid, questions) ==
    /\ Arrives(w)
    /\ IF CurrentUser(ip) = NoUser
       THEN Respond(w, "create_quiz", ip, "login_required") /\ UNCHANGED quizzes
       ELSE IF pid = NoPost \/ questions = <<>>
       THEN Respond(w, "create_quiz", ip, "bad_request") /\ UNCHANGED quizzes
       ELSE /\ quizzes' = Append(quizzes, QuizRow(pid))
            /\ Respond(w, "create_quiz", ip, "created")
    /\ run' = NoRun
    /\ UNCHANGED <<auth, content>>

\* the values of event_type a log_quiz request carries: the two the page
\* sends, another string, and none
EventTypes == {"attempt", "success", "other", "None"}

\* routes.py:394-419: a quiz interaction is logged, for any client
LogQuiz(w, ip, quiz_id, event_type) ==
    /\ Arrives(w)
    /\ IF quiz_id \notin DOMAIN quizzes
       THEN Respond(w, "log_quiz", ip, "not_found") /\ UNCHANGED <<quizzes, log>>
       ELSE /\ quizzes' = [quizzes EXCEPT ![quiz_id] =
                             IF event_type = "attempt" THEN [@ EXCEPT !.attempts = @ + 1]
                             ELSE IF event_type = "success"
                             THEN [@ EXCEPT !.successes = @ + 1]
                             ELSE @]
            /\ log' = Append(log, LogRow(quizzes[quiz_id].post_id,
                                         "quiz_" \o event_type, ip))
            /\ Respond(w, "log_quiz", ip, "success")
    /\ run' = NoRun
    /\ UNCHANGED <<users, nextUserId, blocked, session, content>>

\* routes.py:125-127: the store fails the commit of the audit entry of a view
ViewLogFails(w) ==
    /\ pc[w] = "view_log"
    /\ Respond(w, "view", req[w].ip, "error")
    /\ UNCHANGED <<auth, content, now, run, budget>>

\* routes.py:405-417: the store fails the one commit of log_quiz, which holds
\* the counter and the audit entry
LogQuizFails(w, ip, quiz_id) ==
    /\ Arrives(w)
    /\ quiz_id \in DOMAIN quizzes
    /\ Respond(w, "log_quiz", ip, "error")
    /\ run' = NoRun
    /\ UNCHANGED <<auth, content, quizzes>>

\* ------------------------------------------------- functions of utils.py
\* no function has been called
NoCall == [fn |-> "none", arg |-> <<>>, allowed_tags |-> {}, ret |-> <<>>]

\* A content is a sequence of tokens: the brackets, the words, " id=", the
\* digits, and other text.
Digits == {"1", "2", "3", "4"}

\* \d+ at position i of s: the length of the run of digits
RECURSIVE DigitRun(_, _)
DigitRun(s, i) ==
    IF i <= Len(s) /\ s[i] \in Digits THEN 1 + DigitRun(s, i + 1) ELSE 0

\* utils.py:51, 58, 65, 72: the pattern \[kind id=(\d+)\] matched at position
\* i of s; the number of tokens of the match, 0 when there is none
MatchLen(s, i, kind) ==
    IF /\ i + 4 <= Len(s)
       /\ s[i] = "[" /\ s[i + 1] = kind /\ s[i + 2] = " id="
       /\ DigitRun(s, i + 3) >= 1
       /\ i + 3 + DigitRun(s, i + 3) <= Len(s)
       /\ s[i + 3 + DigitRun(s, i + 3)] = "]"
    THEN DigitRun(s, i + 3) + 4
    ELSE 0

\* utils.py:47-49
replace_quiz(quiz_id) ==
    <<"<div class=\"interactive-quiz\" data-quiz-id=\"">> \o quiz_id \o <<"\"></div>">>

\* utils.py:54-56
replace_chart(chart_id) ==
    <<"<div class=\"interactive-chart\" data-chart-id=\"">> \o chart_id \o <<"\"></div>">>

\* utils.py:61-63
replace_video(video_id) ==
    <<"<div class=\"interactive-video\" data-video-id=\"">> \o video_id \o <<"\"></div>">>

\* mutant of replace_pdf: the placeholder of another kind
replace_pdf_as_video(pdf_id) ==
    <<"<div class=\"interactive-video\" data-video-id=\"">> \o pdf_id \o <<"\"></div>">>

\* utils.py:68-70
replace_pdf(pdf_id) ==
    <<"<div class=\"interactive-pdf\" data-pdf-id=\"">> \o pdf_id \o <<"\"></div>">>

\* the callback each re.sub of parse_shortcodes is given
Replacement(kind, id) ==
    CASE kind = "quiz" -> replace_quiz(id)
      [] kind = "chart" -> replace_chart(id)
      [] kind = "video" -> replace_video(id)
      [] kind = "pdf" -> replace_pdf(id)

\* re.sub(pattern of kind, callback, s) from position i on: the leftmost
\* matches, not overlapping, are replaced
RECURSIVE re_sub(_, _, _)
re_sub(kind, s, i) ==
    IF i > Len(s) THEN <<>>
    ELSE IF MatchLen(s, i, kind) > 0
    THEN Replacement(kind, SubSeq(s, i + 3, i + MatchLen(s, i, kind) - 2))
            \o re_sub(kind, s, i + MatchLen(s, i, kind))
    ELSE <<s[i]>> \o re_sub(kind, s, i + 1)

\* utils.py:36-74: the four substitutions, one after the other
parse_shortcodes(text) ==
    re_sub("pdf", re_sub("video", re_sub("chart", re_sub("quiz", text, 1), 1), 1), 1)

\* the pieces the contents given to parse_shortcodes are made of: text,
\* directives of the four kinds, and bracket text that is no directive
ContentParts ==
    { <<"Quiz: ">>,
      <<"[", "quiz", " id=", "1", "]">>,
      <<"[", "chart", " id=", "4", "2", "]">>,
      <<"[", "video", " id=", "3", "]">>,
      <<"[", "pdf", " id=", "4", "]">>,
      <<"[", "poll", " id=", "1", "]">>,
      <<"[", "quiz", " id=", "x", "]">>,
      <<"[", "pdf", " id=", "1", "x", "]">>,
      <<"[", "quiz", " id=", "]">>,
      <<"[", "chart", " id=", "2">>,
      <<"]">> }

\* the concatenation of a sequence of contents
RECURSIVE Flatten(_)
Flatten(parts) ==
    IF parts = <<>> THEN <<>> ELSE Head(parts) \o Flatten(Tail(parts))

\* the contents of at most n parts
ContentsOf(n) ==
    {Flatten(ps) : ps \in UNION {[1..k -> ContentParts] : k \in 0..n}}

\* A markup text is a sequence of tokens as the HTML tokenizer of bleach
\* yields them: text, start tags with their attribute names, end tags.
TextToken(data) == [type |-> "text", name |-> "", attrs |-> {}, data |-> data]

StartTag(name, attrs) == [type |-> "start", name |-> name, attrs |-> attrs, data |-> ""]

EndTag(name) == [type |-> "end", name |-> name, attrs |-> {}, data |-> ""]

\* utils.py:24-26
DefaultTags ==
    {"p", "br", "strong", "b", "em", "i", "u", "h1", "h2", "h3", "h4", "h5", "h6",
     "ul", "ol", "li", "blockquote", "code", "pre", "a", "img"}

\* utils.py:28-31
allowed_attributes(name) ==
    IF name = "a" THEN {"href", "title"}
    ELSE IF name = "img" THEN {"src", "alt", "title"}
    ELSE {}

\* utils.py:33: bleach.clean(text, tags=..., attributes=allowed_attributes,
\* strip=True): a tag that is not in tags is dropped and what it encloses is
\* kept; a tag in tags keeps the attributes allowed for it
clean(text, tags) ==
    LET kept == SelectSeq(text, LAMBDA tok : tok.type = "text" \/ tok.name \in tags)
    IN [i \in 1..Len(kept) |->
          [kept[i] EXCEPT !.attrs = @ \cap allowed_attributes(kept[i].name)]]

\* utils.py:9-33: an allow-list that is None or empty is replaced by the
\* default one
sanitize_input(text, allowed_tags) ==
    clean(text, IF allowed_tags = {} THEN DefaultTags ELSE allowed_tags)

\* the tokens the texts given to sanitize_input are made of
MarkupTokens ==
    { TextToken("Some"), TextToken("alert(1)"),
      StartTag("p", {}), EndTag("p"), StartTag("em", {"onclick"}),
      StartTag("script", {}), EndTag("script"),
      StartTag("a", {"href", "onclick"}) }

\* the texts of at most n tokens
MarkupOf(n) == UNION {[1..k -> MarkupTokens] : k \in 0..n}

\* the allow-lists callers pass: none, the ones of tests/test_utils.py, the
\* editor's (routes.py:197), and ones that name script
AllowLists ==
    { {}, {"p"}, {"p", "strong"}, {"b", "i", "u", "strong", "em"},
      {"script"}, {"p", "a", "script"} }

\* routes.py:197 and 204: sanitize_input is called on a text
CallSanitizeInput(text, allowed_tags) ==
    /\ call = NoCall
    /\ call' = [fn |-> "sanitize_input", arg |-> text, allowed_tags |-> allowed_tags,
                ret |-> sanitize_input(text, allowed_tags)]
    /\ UNCHANGED <<auth, content, now, pc, req, out, run, budget, quizzes>>

\* routes.py:130: parse_shortcodes is called on a content
CallParseShortcodes(text) ==
    /\ call = NoCall
    /\ call' = [fn |-> "parse_shortcodes", arg |-> text, allowed_tags |-> {},
                ret |-> parse_shortcodes(text)]
    /\ UNCHANGED <<auth, content, now, pc, req, out, run, budget, quizzes>>

\* ---------------------------------------------------------- specifications
Roles == {"author", "admin"}
NewPassword == "pw1"
UserIds == 1..3
PostIds == 0..2
Statuses == {"draft", "published"}

\* the accounts the fixtures of tests/conftest.py seed: an admin and an author
SeedUsers == (1 :> UserRow("alice", "pw1", "admin")) @@ (2 :> UserRow("bob", "pw2", "author"))

\* The state left by k wrong-password sign-ins against bob from ip2, then (a)
\* alice signing in from ip1, then (b) bob signing in from ip2.
Scenario(k, a, b, n) ==
    LET fails == [i \in 1..k |-> LogRow(0, "login_failed", "ip2")]
        resps == [i \in 1..k |-> IF ShouldBlock(i) THEN "locked" ELSE "invalid"]
        t == k + (IF a THEN 1 ELSE 0) + (IF b THEN 1 ELSE 0)
    IN
    /\ users = [SeedUsers EXCEPT ![2].failed_attempts = IF b THEN 0 ELSE k,
                                 ![2].last_attempt = k]
    /\ nextUserId = 3
    /\ posts = <<>>
    /\ nextPostId = 1
    /\ revisions = <<>>
    /\ blocked = IF ShouldBlock(k) THEN <<BlockedRow("ip2", "bob")>> ELSE <<>>
    /\ log = fails \o (IF a THEN <<LogRow(0, "login_success", "ip1")>> ELSE <<>>)
                   \o (IF b THEN <<LogRow(0, "login_success", "ip2")>> ELSE <<>>)
    /\ session = [ip \in IPs |-> IF ip = "ip1" /\ a THEN 1
                                 ELSE IF ip = "ip2" /\ b THEN 2 ELSE NoUser]
    /\ now = t
    /\ pc = [w \in Workers |-> "idle"]
    /\ req = [w \in Workers |-> NoReq]
    /\ out = [w \in Workers |->
                IF w # 1 \/ t = 0 THEN NoOut
                ELSE [kind |-> "login",
                      ip |-> IF b \/ ~a THEN "ip2" ELSE "ip1",
                      resp |-> IF a \/ b THEN "login_ok" ELSE resps[k]]]
    /\ run = IF k = 0 \/ a \/ b THEN NoRun
             ELSE [uid |-> 2, ip |-> "ip2", n |-> k, resps |-> resps]
    /\ budget = n
    /\ call = NoCall
    /\ quizzes = <<>>

\* the counters the scenarios start from: none, one below the threshold, and
\* the threshold
ScenarioFailures == {0, BlockThreshold - 1, BlockThreshold}

Scenarios == {<<k, a, b>> \in ScenarioFailures \X BOOLEAN \X BOOLEAN :
                 b => ~ShouldBlock(k)}

PubArrive(w) ==
    \/ \E ip \in IPs, pid \in PostIds, t \in Titles, c \in Contents, st \in Statuses :
          EditorArrive(w, ip, pid, t, c, st)
    \/ \E ip \in IPs, pid \in PostIds, c \in Contents : SaveDraftArrive(w, ip, pid, c)
    \/ \E ip \in IPs, pid \in PostIds : PublishArrive(w, ip, pid)

PubStep(w) ==
    \/ EditorCommit(w)
    \/ \E ai \in AIOutcomes : EditorPublish(w, ai)
    \/ SaveDraftCommit(w)
    \/ \E ai \in AIOutcomes : PublishCommit(w, ai)

Arrive(w) ==
    \/ \E ip \in IPs, m \in {"GET", "POST"}, u \in Usernames, p \in Passwords :
          LoginArrive(w, ip, m, u, p)
    \/ \E ip \in IPs : LoginRateLimited(w, ip)
    \/ \E ip \in IPs : Logout(w, ip)
    \/ \E ip \in IPs, u \in Usernames, r \in Roles :
          AdminCreateUser(w, ip, u, NewPassword, r)
    \/ \E ip \in IPs, uid \in UserIds : AdminDeleteUser(w, ip, uid)
    \/ PubArrive(w)

Step(w) ==
    \/ LoginQuery(w)
    \/ LoginCommit(w)
    \/ LoginLog(w)
    \/ PubStep(w)

AllIdle == \A w \in Workers : pc[w] = "idle"

\* the whole system, one request at a time, from every scenario
Init == \E s \in Scenarios : Scenario(s[1], s[2], s[3], MaxClock)

Next ==
    \/ \E w \in SeqWorkers : AllIdle /\ Arrive(w) /\ UNCHANGED aside
    \/ \E w \in SeqWorkers : Step(w) /\ UNCHANGED aside

Spec == Init /\ [][Next]_vars

\* the sign-in handlers, one request at a time, from the seeded database
ThrottleInit == Scenario(0, FALSE, FALSE, MaxDeep)

ThrottleArrive(w) ==
    \/ \E ip \in IPs, m \in {"GET", "POST"}, u \in Usernames, p \in Passwords :
          LoginArrive(w, ip, m, u, p)
    \/ \E ip \in IPs : LoginRateLimited(w, ip)

ThrottleStep(w) ==
    \/ LoginQuery(w)
    \/ LoginCommit(w)
    \/ LoginLog(w)

ThrottleNext ==
    \/ \E w \in SeqWorkers : AllIdle /\ ThrottleArrive(w) /\ UNCHANGED aside
    \/ \E w \in SeqWorkers : ThrottleStep(w) /\ UNCHANGED aside

ThrottleSpec == ThrottleInit /\ [][ThrottleNext]_vars

\* the publishing handlers, one request at a time, the admin signed in
PubInit == Scenario(0, TRUE, FALSE, MaxPub)

PubNext ==
    \/ \E w \in SeqWorkers : AllIdle /\ PubArrive(w) /\ UNCHANGED aside
    \/ \E w \in SeqWorkers : PubStep(w) /\ UNCHANGED aside

PubSpec == PubInit /\ [][PubNext]_vars

\* the requests of the workers interleave
ConcInit == \E k \in 0..BlockThreshold : Scenario(k, FALSE, FALSE, MaxConcClock)

ConcNext ==
    \/ \E w \in Workers : ThrottleArrive(w) /\ UNCHANGED aside
    \/ \E w \in Workers : ThrottleStep(w) /\ UNCHANGED aside

ConcSpec == ConcInit /\ [][ConcNext]_vars

\* the publishing requests of the workers interleave, the admin signed in
RaceInit == Scenario(0, TRUE, FALSE, MaxRace)

RaceNext ==
    \/ \E w \in Workers : PubArrive(w) /\ UNCHANGED aside
    \/ \E w \in Workers : PubStep(w) /\ UNCHANGED aside

RaceSpec == RaceInit /\ [][RaceNext]_vars

\* the publishing handlers, one request at a time, over a store that may fail
\* the commit that records a revision
FaultInit == Scenario(0, TRUE, FALSE, MaxFault)

FaultNext ==
    \/ \E w \in SeqWorkers : AllIdle /\ PubArrive(w) /\ UNCHANGED aside
    \/ \E w \in SeqWorkers : PubStep(w) /\ UNCHANGED aside
    \/ \E w \in SeqWorkers : EditorPublishFails(w) /\ UNCHANGED aside
    \/ \E w \in SeqWorkers : PublishCommitFails(w) /\ UNCHANGED aside

FaultSpec == FaultInit /\ [][FaultNext]_vars

\* the handlers that write the audit log, one request at a time, the admin
\* signed in
LogInit == Scenario(0, TRUE, FALSE, MaxLog)

\* the slugs a page is requested by
Slugs == {<<"hello", "world">>, <<"other">>}

QuizIds == 1..2

LogArrive(w) ==
    \/ ThrottleArrive(w) /\ UNCHANGED quizzes
    \/ \E ip \in IPs, pid \in PostIds, st \in Statuses :
          EditorArrive(w, ip, pid, "Hello World", "python tutorial", st) /\ UNCHANGED quizzes
    \/ \E ip \in IPs, slug \in Slugs : ViewArrive(w, ip, slug) /\ UNCHANGED quizzes
    \/ \E ip \in IPs, pid \in PostIds, q \in {<<>>, <<"q1">>} : CreateQuiz(w, ip, pid, q)
    \/ \E ip \in IPs, quiz_id \in QuizIds, e \in EventTypes : LogQuiz(w, ip, quiz_id, e)

LogStep(w) ==
    \/ ThrottleStep(w)
    \/ EditorCommit(w)
    \/ \E ai \in AIOutcomes : EditorPublish(w, ai)
    \/ ViewCount(w)
    \/ ViewLog(w)

LogNext ==
    \/ \E w \in SeqWorkers : AllIdle /\ LogArrive(w) /\ UNCHANGED call
    \/ \E w \in SeqWorkers : LogStep(w) /\ UNCHANGED aside

LogSpec == LogInit /\ [][LogNext]_vars

\* the publishing handlers, one request at a time, the admin signed in at one
\* address and the second address either signed in as the author or not at all
OwnInit == \E b \in BOOLEAN : Scenario(0, TRUE, b, MaxOwn)

OwnNext ==
    \/ \E w \in SeqWorkers : AllIdle /\ PubArrive(w) /\ UNCHANGED aside
    \/ \E w \in SeqWorkers : PubStep(w) /\ UNCHANGED aside

OwnSpec == OwnInit /\ [][OwnNext]_vars

\* the handlers that write the audit log, with a store that may fail the
\* commit of an audit entry
AuditFaultInit == Scenario(0, TRUE, FALSE, MaxAudit)

AuditFaultNext ==
    \/ \E w \in SeqWorkers : AllIdle /\ LogArrive(w) /\ UNCHANGED call
    \/ \E w \in SeqWorkers : LogStep(w) /\ UNCHANGED aside
    \/ \E w \in SeqWorkers : LoginLogFails(w) /\ UNCHANGED aside
    \/ \E w \in SeqWorkers : ViewLogFails(w) /\ UNCHANGED aside
    \/ \E w \in SeqWorkers, ip \in IPs, quiz_id \in QuizIds :
          AllIdle /\ LogQuizFails(w, ip, quiz_id) /\ UNCHANGED call

AuditFaultSpec == AuditFaultInit /\ [][AuditFaultNext]_vars

\* the functions of utils.py, called on every input
UtilInit == Scenario(0, FALSE, FALSE, 0)

UtilNext ==
    \/ call = NoCall /\ \E text \in ContentsOf(MaxParts) : CallParseShortcodes(text)
    \/ call = NoCall /\ \E text \in MarkupOf(MaxTokens), tags \in AllowLists :
                            CallSanitizeInput(text, tags)

UtilSpec == UtilInit /\ [][UtilNext]_vars

\* ------------------------------------------------------------------ claims
\* a request of this kind from this address arrived at worker w in this step
Arrived(w, kind, ip) ==
    /\ budget' = budget - 1
    /\ pc[w] = "idle"
    /\ \/ pc'[w] = "idle" /\ out'[w].kind = kind /\ out'[w].ip = ip
       \/ pc'[w] # "idle" /\ req'[w].kind = kind /\ req'[w].ip = ip

\* worker w takes the step of its handler that starts at position p
Steps(w, p) == pc[w] = p /\ (pc'[w] # p \/ req'[w] # req[w] \/ out'[w] # out[w])

\* C1: from a counter of 0 and an address without a BlockedIP record, five
\* consecutive wrong-password attempts against the user from the address are
\* answered invalid, invalid, invalid, invalid, locked, and leave exactly one
\* BlockedIP record for the address.
C1_FiveFailuresBlock ==
    /\ run.n <= 5
    /\ \A i \in 1..run.n : run.resps[i] = IF i < 5 THEN "invalid" ELSE "locked"
    /\ run.n = 5 => BlockedCount(blocked, run.ip) = 1
    /\ (run.n \in 1..4 /\ AllIdle) => BlockedCount(blocked, run.ip) = 0

C1_Witness == run.n = 5 /\ out[1].resp = "locked" /\ BlockedCount(blocked, run.ip) = 1

\* C2: a sign-in request from an address that has a BlockedIP record is
\* answered at once, whatever credentials it carries: the handler does not
\* go on to the credential check, and no user row, BlockedIP record or
\* session changes.
C2_BlockedRejectedFirst ==
    [][\A w \in Workers, ip \in IPs :
          (IsBlocked(blocked, ip) /\ Arrived(w, "login", ip))
          => /\ pc'[w] = "idle"
             /\ out'[w].resp \in {"blocked", "too_many_requests"}
             /\ users' = users /\ blocked' = blocked /\ session' = session]_vars

C2_Witness ==
    /\ out[1].kind = "login" /\ out[1].resp = "blocked"
    /\ IsBlocked(blocked, out[1].ip)
    /\ budget < MaxClock

\* C3: a BlockedIP record, once inserted, stays in the table unchanged through
\* every step of every handler.
C3_BlockedPermanent ==
    [][/\ Len(blocked') >= Len(blocked)
       /\ SubSeq(blocked', 1, Len(blocked)) = blocked]_vars

C3_Witness ==
    /\ blocked # <<>>
    /\ \E p \in DOMAIN posts : posts[p].status = "published"
    /\ 2 \notin DOMAIN users

\* C4: a sign-in with correct credentials that the handler evaluates sets the
\* user's counter to 0 whatever it was, and a step that lowers a user's
\* counter is such a sign-in of that user.
C4_ResetOnSuccessOnly ==
    [][/\ \A w \in Workers :
            (Steps(w, "login_commit") /\ req[w].uid # NoUser /\ req[w].pwok)
            => /\ users'[req[w].uid].failed_attempts = 0
               /\ session'[req[w].ip] = req[w].uid
               /\ req'[w].resp = "login_ok"
       /\ \A u \in DOMAIN users \cap DOMAIN users' :
            users'[u].failed_attempts < users[u].failed_attempts
            => \E w \in Workers :
                  /\ Steps(w, "login_commit") /\ req[w].uid = u /\ req[w].pwok
                  /\ check_password(users[u], req[w].password)
                  /\ users'[u].failed_attempts = 0]_vars

C4_Witness ==
    /\ pc[1] = "login_log" /\ req[1].resp = "login_ok"
    /\ req[1].fa >= BlockThreshold
    /\ users[req[1].uid].failed_attempts = 0

\* C5: a wrong-password attempt against an existing user that the handler
\* evaluates raises the user's counter by exactly 1; when the raised counter
\* is 5 or more one BlockedIP record for the address is added and the answer
\* is the lockout, otherwise no record is added and the answer is the
\* invalid-credentials message.
C5_FailureStep ==
    [][\A w \in Workers :
          /\ (Steps(w, "login_commit") /\ req[w].uid # NoUser /\ ~req[w].pwok)
             => /\ users'[req[w].uid].failed_attempts
                      = users[req[w].uid].failed_attempts + 1
                /\ IF users'[req[w].uid].failed_attempts >= 5
                   THEN /\ Len(blocked') = Len(blocked) + 1
                        /\ blocked'[Len(blocked')].ip_address = req[w].ip
                        /\ req'[w].resp = "locked"
                   ELSE blocked' = blocked /\ req'[w].resp = "invalid"
          /\ Steps(w, "login_log") => out'[w].resp = req[w].resp]_vars

C5_Witness ==
    /\ pc[1] = "login_log" /\ req[1].resp = "locked"
    /\ users[req[1].uid].failed_attempts > 5
    /\ BlockedCount(blocked, req[1].ip) = 1

\* C6: a sign-in attempt whose username matches no user changes no user row
\* and no BlockedIP record, appends one login_failed audit entry with the
\* origin address, and is answered with the invalid-credentials message.
C6_UnknownUser ==
    [][\A w \in Workers :
          /\ Steps(w, "login_query")
             => (req'[w].uid = NoUser
                   <=> ~\E u \in DOMAIN users : users[u].username = req[w].username)
          /\ (Steps(w, "login_commit") /\ req[w].uid = NoUser)
             => /\ users' = users /\ blocked' = blocked /\ log' = log
                /\ pc'[w] = "login_log"
          /\ (Steps(w, "login_log") /\ req[w].uid = NoUser)
             => /\ users' = users /\ blocked' = blocked
                /\ log' = Append(log, LogRow(0, "login_failed", req[w].ip))
                /\ out'[w].resp = "invalid"]_vars

C6_Witness ==
    /\ out[1].kind = "login" /\ out[1].resp = "invalid"
    /\ \A u \in DOMAIN users : users[u].failed_attempts = 0 /\ users[u].last_attempt = NoTime
    /\ log # <<>> /\ log[Len(log)] = LogRow(0, "login_failed", out[1].ip)

\* the number of revisions recorded for post p
RevisionCount(p) == Cardinality({i \in DOMAIN revisions : revisions[i].post_id = p})

\* C7: when two wrong-password attempts from one address that is not yet
\* blocked interleave and each raises the counter it read to 5 or more, both
\* are committed and answered with the lockout, and the address has exactly
\* one BlockedIP record: no attempt ends in a storage error.
C7_BlockIsUpsert ==
    [][\A w \in Workers :
          (/\ Steps(w, "login_commit")
           /\ req[w].uid # NoUser /\ ~req[w].pwok
           /\ req[w].fa + 1 >= 5)
          => /\ pc'[w] = "login_log" /\ req'[w].resp = "locked"
             /\ BlockedCount(blocked', req[w].ip) = 1
             /\ users'[req[w].uid].failed_attempts > users[req[w].uid].failed_attempts]_vars

C7_Witness ==
    /\ out[1].resp = "locked" /\ out[2].resp = "error"
    /\ out[1].ip = out[2].ip
    /\ BlockedCount(blocked, out[1].ip) = 1
    /\ users[2].failed_attempts = BlockThreshold

\* C8: every committed wrong-password attempt against a user, with no
\* successful sign-in of the user since the attempt read the counter, leaves
\* the stored counter one higher than it was, so that k interleaved attempts
\* raise it by k.
C8_NoLostIncrement ==
    [][\A w \in Workers :
          (/\ Steps(w, "login_commit") /\ pc'[w] = "login_log"
           /\ req[w].uid # NoUser /\ ~req[w].pwok
           /\ users[req[w].uid].failed_attempts >= req[w].fa)
          => users'[req[w].uid].failed_attempts
                = users[req[w].uid].failed_attempts + 1]_vars

C8_Witness ==
    /\ out[1].resp = "invalid" /\ out[2].resp = "invalid"
    /\ Len(log) = 2 /\ budget = MaxConcClock - 2
    /\ users[2].failed_attempts = 1

\* C9: published_at of a post is set only by a step that leaves the post
\* published, and once set it keeps its value through every editor save,
\* draft save and publish call.
C9_PublishedAtOnce ==
    [][\A p \in DOMAIN posts :
          /\ posts[p].published_at # NoTime
             => posts'[p].published_at = posts[p].published_at
          /\ posts'[p].published_at # posts[p].published_at
             => /\ posts'[p].status = "published"
                /\ posts'[p].published_at = now]_vars

C9_Witness ==
    \E p \in DOMAIN posts :
        /\ posts[p].published_at # NoTime
        /\ posts[p].updated_at > posts[p].published_at
        /\ RevisionCount(p) >= 2
        /\ out[1].kind = "publish" /\ out[1].resp = "published"

\* C10: a save of a post that has been published and stays published, made
\* through the editor form or through the publish call, appends exactly one
\* revision holding the post's content and keeps published_at.
C10_RepublishAddsRevision ==
    [][\A w \in Workers :
          (/\ Steps(w, "editor_publish") \/ Steps(w, "publish_commit")
           /\ posts[req[w].pid].published_at # NoTime
           /\ posts'[req[w].pid].status = "published")
          => /\ revisions' = Append(revisions,
                                    RevisionRow(req[w].pid, posts'[req[w].pid].content))
             /\ posts'[req[w].pid].published_at = posts[req[w].pid].published_at]_vars

C10_Witness ==
    \E p \in DOMAIN posts :
        /\ out[1].kind = "editor" /\ out[1].resp = "saved"
        /\ posts[p].status = "published"
        /\ posts[p].updated_at > posts[p].published_at
        /\ RevisionCount(p) = 1

\* C11: the status of a post never goes from published back to draft through
\* the editor form, save_draft or the publish call.
C11_NoUnpublish ==
    [][\A p \in DOMAIN posts :
          posts[p].status = "published" => posts'[p].status = "published"]_vars

C11_Witness ==
    \E p \in DOMAIN posts :
        /\ posts[p].status = "draft" /\ posts[p].published_at # NoTime
        /\ out[1].kind = "editor" /\ out[1].resp = "saved"

\* no two persisted posts have the same slug
SlugsUnique ==
    \A p, q \in DOMAIN posts : p # q => posts[p].slug # posts[q].slug

\* C12: no two persisted posts ever have the same slug, and a creation that
\* loses the race for a slug to an interleaved creation persists no post and
\* is answered as a conflict.
C12_SlugRaceConflict ==
    /\ SlugsUnique
    /\ \A w \in Workers :
          (out[w].kind = "editor" /\ out[w].resp \notin {"saved", "login_required", "not_found"})
          => out[w].resp = "conflict"

C12_Witness ==
    /\ SlugsUnique
    /\ out[1].kind = "editor" /\ out[1].resp = "saved"
    /\ out[2].kind = "editor" /\ out[2].resp = "error"
    /\ Cardinality(DOMAIN posts) = 1

C14_SlugImmutable ==
    [][\A p \in DOMAIN posts :
          posts[p].slug # NoSlug
          => /\ posts'[p].slug = posts[p].slug
             /\ generate_slug(posts', posts'[p].slug, posts'[p].title) = posts[p].slug]_vars

C14_Witness ==
    \E p \in DOMAIN posts :
        /\ posts[p].slug = <<"hello", "world">> /\ posts[p].title = "Other"
        /\ posts[p].status = "published"
        /\ out[1].kind = "save_draft" /\ out[1].resp = "saved"

\* worker w takes the step that publishes a post for the first time
FirstPublishStep(w) ==
    \/ /\ Steps(w, "editor_publish") /\ req[w].status = "published"
       /\ posts[req[w].pid].published_at = NoTime
    \/ /\ Steps(w, "publish_commit")
       /\ posts[req[w].pid].published_at = NoTime

\* C15: whichever way the AI collaborator fails, classification is the result
\* of the keyword fallback, with a non-empty categories list and a non-empty
\* tags list, and the first publish completes: the post is published,
\* published_at is set and a revision is recorded.
C15_FallbackPublishes ==
    [][\A w \in Workers :
          FirstPublishStep(w)
          => LET pid == req[w].pid
                 text == posts[pid].content
             IN
             /\ \A ai \in AIFailures :
                   /\ Classify(text, ai) = generate_basic_tags(text)
                   /\ Classify(text, ai).categories # <<>>
                   /\ Classify(text, ai).tags # <<>>
             /\ out'[w].resp \in {"saved", "published"}
             /\ posts'[pid].status = "published"
             /\ posts'[pid].published_at = now
             /\ revisions' = Append(revisions, RevisionRow(pid, text))
             /\ \E ai \in AIOutcomes :
                   /\ posts'[pid].categories = Classify(text, ai).categories
                   /\ posts'[pid].tags = Classify(text, ai).tags]_vars

C15_Witness ==
    \E p, q \in DOMAIN posts :
        /\ posts[p].status = "published" /\ posts[p].published_at # NoTime
        /\ posts[p].categories = <<"General", "Blog">>
        /\ posts[p].tags = <<"blog", "article", "post">>
        /\ posts[q].status = "published"
        /\ posts[q].categories = <<"Technology", "Tutorial">>
        /\ posts[q].tags = <<"python", "tutorial">>
        /\ RevisionCount(p) = 1 /\ RevisionCount(q) = 1

\* C16: when the store fails the commit that records the revision of a
\* publish, made through the editor form or the publish call, the request is
\* answered as failed and the persisted post has the status, published_at,
\* categories and tags it had before the request.
C16_PublishAtomic ==
    [][\A w \in Workers :
          (/\ pc[w] \in {"editor_publish", "publish_commit"}
           /\ pc'[w] = "idle" /\ out'[w].resp = "error"
           /\ req[w].loaded_status # "")
          => LET pid == req[w].pid IN
             /\ posts'[pid].status = req[w].loaded_status
             /\ posts'[pid].published_at = posts[pid].published_at
             /\ posts'[pid].categories = posts[pid].categories
             /\ posts'[pid].tags = posts[pid].tags
             /\ revisions' = revisions]_vars

C16_Witness ==
    \E p \in DOMAIN posts :
        /\ out[1].kind = "editor" /\ out[1].resp = "error"
        /\ posts[p].status = "published" /\ posts[p].published_at = NoTime
        /\ RevisionCount(p) = 0
        /\ budget = 0

\* the kinds of directive
ShortcodeKinds == {"quiz", "chart", "video", "pdf"}

\* the placeholder of a directive of a kind with an id
Placeholder(kind, id) ==
    <<"<div class=\"interactive-" \o kind \o "\" data-" \o kind \o "-id=\"">>
        \o id \o <<"\"></div>">>

\* a directive starts at position i of s: an opening bracket, one of the four
\* kinds, " id=", digits up to position j - 1, a closing bracket at j
DirectiveAt(s, i, j) ==
    /\ i + 4 <= j /\ j <= Len(s)
    /\ s[i] = "[" /\ s[i + 1] \in ShortcodeKinds /\ s[i + 2] = " id="
    /\ \A k \in (i + 3)..(j - 1) : s[k] \in Digits
    /\ s[j] = "]"

\* s from position i on, each directive replaced by its placeholder and every
\* other token kept in its place
RECURSIVE Expanded(_, _)
Expanded(s, i) ==
    IF i > Len(s) THEN <<>>
    ELSE IF \E j \in i..Len(s) : DirectiveAt(s, i, j)
    THEN LET j == CHOOSE j \in i..Len(s) : DirectiveAt(s, i, j)
         IN Placeholder(s[i + 1], SubSeq(s, i + 3, j - 1)) \o Expanded(s, j + 1)
    ELSE <<s[i]>> \o Expanded(s, i + 1)

\* C17: parse_shortcodes replaces every [kind id=digits] with kind one of
\* quiz, chart, video, pdf by the placeholder of the kind and the digits, and
\* leaves every other token, bracket text with another kind or an id that is
\* not digits included, as it is and where it is; a content without such a
\* directive is returned unchanged.
C17_ShortcodesExpanded ==
    call.fn = "parse_shortcodes"
    => /\ call.ret = Expanded(call.arg, 1)
       /\ (~\E i, j \in 1..Len(call.arg) : DirectiveAt(call.arg, i, j))
             => call.ret = call.arg

C17_Witness ==
    /\ call.fn = "parse_shortcodes"
    /\ call.arg = <<"Quiz: ", "[", "pdf", " id=", "4", "]", "[", "chart", " id=", "4", "2", "]">>
    /\ call.ret = <<"Quiz: ", "<div class=\"interactive-pdf\" data-pdf-id=\"", "4", "\"></div>",
                    "<div class=\"interactive-chart\" data-chart-id=\"", "4", "2", "\"></div>">>

\* the tokens of a text that are markup
MarkupIn(text) == {i \in 1..Len(text) : text[i].type # "text"}

\* the text tokens of a text, in their order
TextContent(text) == SelectSeq(text, LAMBDA tok : tok.type = "text")

\* C18: sanitize_input with an empty allow-list returns the text content of
\* its input and no markup element.
C18_EmptyAllowListStrips ==
    (call.fn = "sanitize_input" /\ call.allowed_tags = {})
    => /\ MarkupIn(call.ret) = {}
       /\ call.ret = TextContent(call.arg)

C18_Witness ==
    /\ call.fn = "sanitize_input" /\ call.allowed_tags = {}
    /\ call.arg = <<StartTag("p", {}), TextToken("Some"), EndTag("p")>>
    /\ call.ret = call.arg

\* the attributes that carry an event handler
EventHandlers == {"onclick"}

\* C19: whatever allow-list sanitize_input is given, one that names script
\* included, its result has no script element and no event-handler attribute.
C19_ScriptNeutralized ==
    call.fn = "sanitize_input"
    => \A i \in 1..Len(call.ret) :
          /\ call.ret[i].name # "script"
          /\ call.ret[i].attrs \cap EventHandlers = {}

C19_Witness ==
    /\ call.fn = "sanitize_input" /\ call.allowed_tags = {"script"}
    /\ call.arg = <<StartTag("script", {}), TextToken("alert(1)"), EndTag("script")>>
    /\ call.ret = call.arg

\* the event kinds of the audit log
EventKinds == {"view", "login_success", "login_failed", "quiz_attempt", "quiz_success"}

\* C20: every AnalyticsLog entry has an event kind in the closed set view,
\* login_success, login_failed, quiz_attempt, quiz_success, whatever
\* event_type a quiz-interaction request carries.
C20_EventKindsClosed ==
    \A i \in 1..Len(log) : log[i].event_type \in EventKinds

C20_Witness ==
    /\ out[1].kind = "log_quiz" /\ out[1].resp = "success"
    /\ log # <<>> /\ log[Len(log)].event_type = "quiz_other"
    /\ quizzes # <<>> /\ quizzes[1].attempts = 0 /\ quizzes[1].successes = 0

\* the columns of a post that only its author may change
AuthoredColumns(row) ==
    <<row.title, row.content, row.status, row.published_at, row.categories, row.tags>>

\* C21: the title, content, status, published_at, categories and tags of a
\* post change, and a revision of it is recorded, only in a step of a request
\* that was authenticated as the post's author; a publish request from a
\* client that owns no post is answered login-required when the client is not
\* signed in and not-found when it is, and changes nothing.
C21_AuthorOnlyMutation ==
    [][/\ \A p \in DOMAIN posts :
             (\/ AuthoredColumns(posts'[p]) # AuthoredColumns(posts[p])
              \/ RevisionCount(p)' # RevisionCount(p))
             => \E w \in Workers :
                   /\ pc[w] # "idle"
                   /\ req[w].kind \in {"editor", "save_draft", "publish"}
                   /\ req[w].pid = p
                   /\ req[w].uid = posts[p].author_id
       /\ \A w \in Workers, ip \in IPs :
             (/\ Arrived(w, "publish", ip)
              /\ \A p \in DOMAIN posts : posts[p].author_id # CurrentUser(ip))
             => /\ pc'[w] = "idle"
                /\ out'[w].resp = IF CurrentUser(ip) = NoUser THEN "login_required"
                                  ELSE "not_found"
                /\ content' = content]_vars

C21_Witness ==
    /\ posts # <<>> /\ \A p \in DOMAIN posts : posts[p].author_id = 1
    /\ session["ip2"] = 2
    /\ out[1].kind = "publish" /\ out[1].ip = "ip2" /\ out[1].resp = "not_found"

\* C22: the step that writes the audit entry of a login or of a view always
\* ends the request with its normal outcome (the outcome decided before the
\* entry is written, the page for a view), and a quiz interaction is always
\* answered success or not-found, also when the store fails the audit write.
C22_AuditFailureTolerated ==
    [][\A w \in Workers :
          /\ Steps(w, "login_log") => out'[w].resp = req[w].resp
          /\ Steps(w, "view_log") => out'[w].resp = "page"
          /\ \A ip \in IPs : Arrived(w, "log_quiz", ip)
                => out'[w].resp \in {"success", "not_found"}]_vars

C22_Witness ==
    /\ out[1].kind = "login" /\ out[1].resp = "error"
    /\ users[2].failed_attempts = 1
    /\ \A i \in 1..Len(log) : log[i].event_type # "login_failed"

C24_SuccessStampsLastAttempt ==
    [][\A w \in Workers :
          (Steps(w, "login_commit") /\ req[w].uid \in DOMAIN users /\ req[w].pwok)
          => users'[req[w].uid].last_attempt = now]_vars

C24_Witness ==
    /\ pc[1] = "login_log" /\ req[1].resp = "login_ok"
    /\ req[1].fa > 0
    /\ users[req[1].uid].failed_attempts = 0
    /\ users[req[1].uid].last_attempt < now


\* C25: in every committed state a post whose status is published has its
\* published_at set, also between the two commits of an editor save and for a
\* post created directly as published.
C25_PublishedHasPublishedAt ==
    \A p \in DOMAIN posts :
        posts[p].status = "published" => posts[p].published_at # NoTime

C25_Witness ==
    /\ pc[1] = "editor_publish" /\ req[1].status = "published"
    /\ posts[req[1].pid].status = "published"
    /\ posts[req[1].pid].published_at = NoTime


\* C26: the commit of a save_draft on an existing post of the requester
\* changes only the content and the updated_at timestamp of that post: its
\* status, published_at, slug, title, categories and tags, every other post
\* and the revisions are unchanged, also when the post is published.
C26_SaveDraftFrame ==
    [][\A w \in Workers :
          (Steps(w, "draft_commit") /\ req[w].pid # NoPost)
          => /\ posts' = [posts EXCEPT ![req[w].pid].content = req[w].content,
                                       ![req[w].pid].updated_at = now]
             /\ revisions' = revisions
             /\ nextPostId' = nextPostId
             /\ out'[w].resp = "saved"]_vars

C26_Witness ==
    /\ out[1].kind = "save_draft" /\ out[1].resp = "saved"
    /\ 1 \in DOMAIN posts /\ posts[1].status = "published"
    /\ posts[1].published_at # NoTime /\ posts[1].published_at < posts[1].updated_at
    /\ RevisionCount(1) = 1 /\ revisions[1].content # posts[1].content


\* C27: the commit of a save_draft without a post id by a signed-in user
\* persists exactly one new post, a draft owned by that user with the
\* submitted content, and the request is answered with the new post's id.
C27_SaveDraftCreates ==
    [][\A w \in Workers :
          (Steps(w, "draft_commit") /\ req[w].pid = NoPost)
          => /\ DOMAIN posts' = DOMAIN posts \cup {nextPostId}
             /\ nextPostId \notin DOMAIN posts
             /\ \A p \in DOMAIN posts : posts'[p] = posts[p]
             /\ posts'[nextPostId].status = "draft"
             /\ posts'[nextPostId].author_id = req[w].uid
             /\ posts'[nextPostId].content = req[w].content
             /\ out'[w].resp = "created"]_vars

C27_Witness ==
    /\ out[1].kind = "save_draft" /\ out[1].resp = "error"
    /\ session[out[1].ip] # NoUser
    /\ posts = <<>>


\* C28: the failed-attempt counter alone never rejects a sign-in.  An attempt
\* from an address without a BlockedIP record is not answered as blocked; the
\* password of a user whose counter is 5 or more is compared as any other; and
\* the commit of a sign-in with that user's correct password signs the client
\* in, resets the counter to 0 and leads to the success response.
C28_CounterNeverRejects ==
    [][\A w \in Workers :
          /\ \A ip \in IPs :
                (Arrived(w, "login", ip) /\ ~IsBlocked(blocked, ip))
                => ~(pc'[w] = "idle" /\ out'[w].resp = "blocked")
          /\ (/\ Steps(w, "login_query")
              /\ \E u \in DOMAIN users :
                    /\ users[u].username = req[w].username
                    /\ users[u].password = req[w].password
                    /\ users[u].failed_attempts >= 5)
             => req'[w].uid # NoUser /\ req'[w].pwok
          /\ (/\ Steps(w, "login_commit") /\ req[w].uid \in DOMAIN users
              /\ req[w].pwok /\ users[req[w].uid].failed_attempts >= 5)
             => /\ session'[req[w].ip] = req[w].uid
                /\ users'[req[w].uid].failed_attempts = 0
                /\ pc'[w] = "login_log" /\ req'[w].resp = "login_ok"
          /\ (Steps(w, "login_log") /\ req[w].resp = "login_ok")
             => out'[w].resp = "login_ok"]_vars

C28_Witness ==
    /\ out[1].kind = "login" /\ out[1].resp = "login_ok"
    /\ session[out[1].ip] = 2
    /\ ~IsBlocked(blocked, out[1].ip) /\ blocked # <<>>
    /\ users[2].failed_attempts = 0 /\ users[2].last_attempt >= 5


\* the audit entries of failed sign-ins from address ip
FailedFrom(ip) ==
    {i \in 1..Len(log) : log[i].event_type = "login_failed" /\ log[i].ip_address = ip}

\* C29: a BlockedIP record for an address is added only in the commit of a
\* wrong-password attempt from that address against an existing user whose
\* counter, raised by 1 from whatever the earlier failures from any address
\* left in it, is 5 or more; an address with a record has made a failed
\* attempt.
C29_BlockOnlyOnOwnFailure ==
    [][\A ip \in IPs \cup Usernames :
        /\ IsBlocked(blocked', ip)
           => \/ FailedFrom(ip)' # {}
              \/ \E w \in Workers : /\ pc'[w] = "login_log" /\ req'[w].ip = ip
                                     /\ req'[w].resp = "locked"
        /\ BlockedCount(blocked', ip) > BlockedCount(blocked, ip)
          => \E w \in Workers :
                /\ Steps(w, "login_commit") /\ req[w].ip = ip
                /\ req[w].uid \in DOMAIN users
                /\ users[req[w].uid].username = req[w].username
                /\ users[req[w].uid].password # req[w].password
                /\ users'[req[w].uid].failed_attempts
                      = users[req[w].uid].failed_attempts + 1
                /\ users'[req[w].uid].failed_attempts >= 5
                /\ req'[w].resp = "locked"
                /\ BlockedCount(blocked', ip) = BlockedCount(blocked, ip) + 1
                /\ \A other \in (IPs \cup Usernames) \ {ip} :
                      BlockedCount(blocked', other) = BlockedCount(blocked, other)]_vars

C29_Witness ==
    /\ IsBlocked(blocked, "ip1") /\ AllIdle
    /\ out[1].kind = "login" /\ out[1].ip = "ip1" /\ out[1].resp = "locked"
    /\ Cardinality(FailedFrom("ip1")) = 1
    /\ Cardinality(FailedFrom("ip2")) >= 4


\* C30: for an attempt the handler evaluates, the answer to a wrong password
\* for an existing user whose raised counter is below 5 and the answer to an
\* unknown username are the same response, delivered with the same changes
\* that a client can observe: no sign-in, no BlockedIP record, one
\* login_failed audit entry.
C30_UnknownIndistinguishable ==
    [][\A w \in Workers :
          /\ (/\ Steps(w, "login_commit")
              /\ \/ req[w].uid = NoUser
                 \/ /\ req[w].uid \in DOMAIN users /\ ~req[w].pwok
                    /\ req[w].fa + 1 < 5)
             => /\ pc'[w] = "login_log" /\ req'[w].resp = "invalid"
                /\ session' = session /\ blocked' = blocked
          /\ (Steps(w, "login_log") /\ req[w].resp \notin {"login_ok", "locked"})
             => /\ out'[w] = [kind |-> "login", ip |-> req[w].ip, resp |-> "invalid"]
                /\ log' = Append(log, LogRow(0, "login_failed", req[w].ip))
                /\ session' = session /\ blocked' = blocked]_vars

C30_Witness ==
    /\ out[1].kind = "login" /\ out[1].resp = "invalid" /\ AllIdle
    /\ users[2].failed_attempts = 2 /\ users[2].last_attempt < now
    /\ users[1].failed_attempts = 0
    /\ Len(log) = 3 /\ Cardinality(FailedFrom(out[1].ip)) = 3

====
